---- MODULE Spec2Model ----
(***************************************************************************)
(* Model of the certificate signing request reconciler                     *)
(* (pkg/controller/signer/signer-controller.go).                           *)
(*                                                                         *)
(* One Reconcile pass is split at its blocking external calls (request     *)
(* fetch, approval update, CA secret read, status update, health calls) so *)
(* that passes of several workers interleave at exactly those points.  The *)
(* computation between two calls is folded into the step of the call that  *)
(* precedes it.  Every pass keeps a log of the calls it made.              *)
(***************************************************************************)
EXTENDS Integers, Sequences, FiniteSets, TLC

\* ------------------------------------------------------------------ bounds
NumWorkers == 2          \* passes that can be in flight under SpecConcurrent
MaxAppended == 3         \* a pass is delivered only while the reconciler has
                         \* appended fewer conditions than this to the request
MaxAppendedConcurrent == 2   \* the same, under SpecConcurrent
NumSerials == 2          \* distinct certificates the issuer can produce

Workers == 1..NumWorkers
Serials == 1..NumSerials
Names == {"csr-a"}

\* --------------------------------------------------------------- constants
signerName == "network.openshift.io/signer"
otherSignerName == "kubernetes.io/kube-apiserver-client"

CertificateApproved == "Approved"
CertificateDenied == "Denied"
CertificateFailed == "Failed"
CertificateSigner == "CertificateSigner"

Cond(t, r) == [type |-> t, reason |-> r]

\* ------------------------------------------------------------- input sets
RequestBytes == {"validCSRPEM", "malformed"}
CertBytes == {"validCertPEM", "malformed"}
KeyBytes == {"validKeyPEM", "malformed", "incompatibleKeyPEM"}

ExtApproved == Cond(CertificateApproved, "External")
ExtDenied == Cond(CertificateDenied, "External")

\* The conditions of a request that the reconciler appended itself.
Appended(conditions) ==
  Cardinality({i \in DOMAIN conditions : conditions[i].reason # "External"})

InitialConditions ==
  { <<>>, <<ExtApproved>>, <<ExtDenied>>,
    <<ExtApproved, ExtDenied>>, <<ExtDenied, ExtApproved>> }

ExternalCertificate == <<0>>

ValidCA ==
  [readable |-> TRUE, crt |-> "validCertPEM", key |-> "validKeyPEM"]

\* The secret is valid, absent, or wrong in one of its two entries.
CAStates ==
  { ValidCA,
    [ValidCA EXCEPT !.readable = FALSE],
    [ValidCA EXCEPT !.crt = "malformed"],
    [ValidCA EXCEPT !.key = "malformed"],
    [ValidCA EXCEPT !.key = "incompatibleKeyPEM"] }

NoCSR ==
  [exists |-> FALSE,
   spec |-> [signerName |-> "", request |-> ""],
   status |-> [conditions |-> <<>>, certificate |-> <<>>]]

NoHealth == [state |-> "Unset", reason |-> ""]

\* What a pass saw in the request it fetched.
Saw(csr) ==
  [found |-> csr.exists,
   owned |-> csr.exists /\ csr.spec.signerName = signerName,
   certified |-> Len(csr.status.certificate) # 0,
   decodable |-> csr.spec.request = "validCSRPEM",
   approved |-> \E i \in DOMAIN csr.status.conditions :
                  csr.status.conditions[i].type = CertificateApproved,
   denied |-> \E i \in DOMAIN csr.status.conditions :
                csr.status.conditions[i].type = CertificateDenied]

IdlePass ==
  [pc |-> "idle", name |-> "", csr |-> NoCSR, fetched |-> NoCSR,
   saw |-> Saw(NoCSR),
   reason |-> "", degrade |-> FALSE, retErr |-> FALSE,
   calls |-> <<>>, result |-> "none"]

VARIABLES
  store,      \* the signing request objects, by name
  caSecret,   \* the secret openshift-ovn-kubernetes/signer-ca
  health,     \* the CertificateSigner level of the status manager
  pass,       \* per worker: the Reconcile pass it runs or ran last
  rotated     \* history: the CA secret was changed since the start

vars == <<store, caSecret, health, pass, rotated>>

\* ------------------------------------------------------- pure computations
getCertApprovalCondition(status) ==
  [approved |-> \E i \in DOMAIN status.conditions :
                   status.conditions[i].type = CertificateApproved,
   denied |-> \E i \in DOMAIN status.conditions :
                 status.conditions[i].type = CertificateDenied]

isCertificateRequestApproved_approvedOnly(csr) ==
  getCertApprovalCondition(csr.status).approved

isCertificateRequestApproved(csr) ==
  LET c == getCertApprovalCondition(csr.status)
  IN c.approved /\ ~c.denied

otherSigner_handleAll(csr) == FALSE

otherSigner(csr) == csr.spec.signerName # signerName

hasCertificate_never(csr) == FALSE

hasCertificate(csr) == Len(csr.status.certificate) # 0

decodeCertificateRequest(bytes) == bytes = "validCSRPEM"

decodeCertificate(bytes) == bytes = "validCertPEM"

decodePrivateKey(bytes) == bytes # "malformed"

signCSR(request, crt, key) == key = "validKeyPEM"

SetDegraded(level, reason) == [state |-> "Degraded", reason |-> reason]

SetNotDegraded(level) == [state |-> "NotDegraded", reason |-> ""]

\* ------------------------------------------------------------ pass helpers
\* After its last write a pass no longer reads its copy of the request.
Written(p) == [p EXCEPT !.csr = NoCSR, !.fetched = NoCSR]

Call(op, ok, arg) == [op |-> op, ok |-> ok, arg |-> arg]

Log(p, op, ok, arg) == [p EXCEPT !.calls = Append(@, Call(op, ok, arg))]

\* The pass returns: its locals die, the log of what it did is kept.
Return(p, result) ==
  [p EXCEPT !.pc = "done", !.result = result, !.csr = NoCSR,
            !.fetched = NoCSR,
            !.reason = "", !.degrade = FALSE, !.retErr = FALSE]

AppendCondition_prepends(csr, c) ==
  [csr EXCEPT !.status.conditions = <<c>> \o @]

AppendCondition(csr, c) ==
  [csr EXCEPT !.status.conditions = Append(@, c)]

\* ------------------------------------------------------------------- Init
Init ==
  /\ store \in [Names ->
       { [exists |-> TRUE,
          spec |-> [signerName |-> s, request |-> r],
          status |-> [conditions |-> c, certificate |-> k]] :
         s \in {signerName, otherSignerName}, r \in RequestBytes,
         c \in InitialConditions, k \in {<<>>, ExternalCertificate} }]
  /\ caSecret \in CAStates
  /\ health = NoHealth
  /\ pass = [w \in Workers |-> IdlePass]
  /\ rotated = FALSE

\* ---------------------------------------------------- Reconcile, by steps

AfterGet_appendsTwice(p) ==
  IF otherSigner(p.csr) THEN Return(p, "nil")
  ELSE IF hasCertificate(p.csr) THEN Return(p, "nil")
  ELSE IF ~isCertificateRequestApproved(p.csr)
    THEN [p EXCEPT !.pc = "UpdateApproval",
                   !.csr = AppendCondition(
                             AppendCondition(@,
                               Cond(CertificateApproved, "AutoApproved")),
                             Cond(CertificateApproved, "AutoApproved"))]
    ELSE [p EXCEPT !.pc = "GetCA"]

AfterGet_stopsOnFailed(p) ==
  IF otherSigner(p.csr) THEN Return(p, "nil")
  ELSE IF hasCertificate(p.csr) THEN Return(p, "nil")
  ELSE IF \E i \in DOMAIN p.csr.status.conditions :
            p.csr.status.conditions[i].type = CertificateFailed
    THEN Return(p, "nil")
  ELSE IF ~isCertificateRequestApproved(p.csr)
    THEN [p EXCEPT !.pc = "UpdateApproval",
                   !.csr = AppendCondition(@,
                             Cond(CertificateApproved, "AutoApproved"))]
    ELSE [p EXCEPT !.pc = "GetCA"]

\* Lines 112-149: the filters and the approval decision on the fetched csr.
AfterGet(p) ==
  IF otherSigner(p.csr) THEN Return(p, "nil")
  ELSE IF hasCertificate(p.csr) THEN Return(p, "nil")
  ELSE IF ~isCertificateRequestApproved(p.csr)
    THEN [p EXCEPT !.pc = "UpdateApproval",
                   !.csr = AppendCondition(@,
                             Cond(CertificateApproved, "AutoApproved"))]
    ELSE [p EXCEPT !.pc = "GetCA"]

GetFailed_alwaysRetries(p, notFound) == Return(p, "err")

\* Lines 100-110: a deleted request ends the pass, another error is returned.
GetFailed(p, notFound) == Return(p, IF notFound THEN "nil" ELSE "err")

\* Lines 98-110, then the filters: r.client.Get of the request.
ReconcileGet(w) ==
  /\ pass[w].pc \in {"idle", "done"}
  /\ \E n \in Names, outcome \in {"ok", "notfound", "error"} :
       /\ outcome = "ok" => store[n].exists
       /\ outcome = "notfound" => ~store[n].exists
       /\ LET p0 == [IdlePass EXCEPT !.name = n]
          IN pass' = [pass EXCEPT ![w] =
               CASE outcome = "notfound" ->
                      GetFailed(Log(p0, "Get", FALSE, "NotFound"), TRUE)
                 [] outcome = "error" ->
                      GetFailed(Log(p0, "Get", FALSE, "Error"), FALSE)
                 [] OTHER ->
                      AfterGet([Log(p0, "Get", TRUE, "") EXCEPT
                                  !.csr = store[n], !.fetched = store[n],
                                  !.saw = Saw(store[n])])]
  /\ UNCHANGED <<store, caSecret, health, rotated>>

AfterUpdateApproval_continue(p, ok) ==
  IF ok THEN [p EXCEPT !.pc = "GetCA"] ELSE Return(p, "err")

\* Lines 139-147: both outcomes of the approval update end the pass.
AfterUpdateApproval(p, ok) ==
  IF ok THEN Return(p, "nil") ELSE Return(p, "err")

\* Line 138: UpdateApproval writes the conditions of the request.
ReconcileUpdateApproval(w) ==
  /\ pass[w].pc = "UpdateApproval"
  /\ \E ok \in BOOLEAN :
       LET p == pass[w]
           n == p.name
           written == [store[n] EXCEPT
                         !.status.conditions = p.csr.status.conditions]
       IN /\ ok => store[n].exists
          /\ store' = IF ok THEN [store EXCEPT ![n] = written] ELSE store
          /\ pass' = [pass EXCEPT ![w] =
               AfterUpdateApproval(Log(p, "UpdateApproval", ok, ""), ok)]
  /\ UNCHANGED <<caSecret, health, rotated>>

Fail_retries(p, reason, degrade, retErr) ==
  [p EXCEPT !.pc = "StatusUpdateFailed", !.reason = reason,
            !.degrade = degrade, !.retErr = TRUE]

\* The arguments of signerFailure or updateCSRStatusConditions, and whether
\* Reconcile returns the error afterwards.
Fail(p, reason, degrade, retErr) ==
  [p EXCEPT !.pc = "StatusUpdateFailed", !.reason = reason,
            !.degrade = degrade, !.retErr = retErr]

CAReadFailed_noRetry(p) == Fail(p, "CAFailure", TRUE, FALSE)

\* Lines 154-158: signerFailure, then the read error is returned.
CAReadFailed(p) == Fail(p, "CAFailure", TRUE, TRUE)

CSRDecodeFailed_degrades(p) == Fail(p, "CSRDecodeFailure", TRUE, FALSE)

\* Lines 162-168: only the condition is recorded, nil is returned.
CSRDecodeFailed(p) == Fail(p, "CSRDecodeFailure", FALSE, FALSE)

\* Lines 160-201: decode, sign and encode with the CA secret just read.
AfterGetCA(p, ca, encodeOK, serial) ==
  IF ~decodeCertificateRequest(p.csr.spec.request) THEN CSRDecodeFailed(p)
  ELSE IF ~decodeCertificate(ca.crt)
    THEN Fail(p, "CorruptCACert", TRUE, FALSE)
  ELSE IF ~decodePrivateKey(ca.key)
    THEN Fail(p, "CorruptCAKey", TRUE, FALSE)
  ELSE IF ~signCSR(p.csr.spec.request, ca.crt, ca.key)
    THEN Fail(p, "SigningFailure", TRUE, FALSE)
  ELSE IF ~encodeOK
    THEN Fail([Log(p, "EncodeCertificates", FALSE, "") EXCEPT
                 !.csr.status.certificate = <<>>],
              "EncodeFailure", TRUE, FALSE)
  ELSE [Log(p, "EncodeCertificates", TRUE, "") EXCEPT
          !.csr.status.certificate = <<serial>>,
          !.pc = "StatusUpdate"]

\* What the secret that was read holds: a pair that signs, a pair that
\* decodes but does not sign, or an entry that does not decode.
CAClass(ca) ==
  IF ca = ValidCA THEN "valid"
  ELSE IF decodeCertificate(ca.crt) /\ decodePrivateKey(ca.key)
    THEN "decodable"
  ELSE "corrupt"

\* Lines 151-158: r.client.Get of the CA secret, read afresh in every pass.
ReconcileGetCA(w) ==
  /\ pass[w].pc = "GetCA"
  /\ \E encodeOK \in BOOLEAN, serial \in Serials :
       LET p == pass[w]
       IN pass' = [pass EXCEPT ![w] =
            IF ~caSecret.readable
              THEN CAReadFailed(Log(p, "GetCA", FALSE, ""))
              ELSE AfterGetCA(Log(p, "GetCA", TRUE, CAClass(caSecret)),
                              caSecret, encodeOK, serial)]
  /\ UNCHANGED <<store, caSecret, health, rotated>>

\* After updateCSRStatusConditions returned: what the caller does next.
AfterRecord(p) ==
  IF p.degrade THEN [p EXCEPT !.pc = "SetDegraded"]
  ELSE Return(p, IF p.retErr THEN "err" ELSE "nil")

UpdateFailed_silent(p) == AfterRecord(p)

\* Lines 250-254: a failed status update is escalated.
UpdateFailed(p) == [p EXCEPT !.pc = "SetDegradedUpdateFailure"]

\* Lines 243-249: append the Failed condition and update the status.
updateCSRStatusConditions(w) ==
  /\ pass[w].pc = "StatusUpdateFailed"
  /\ \E ok \in BOOLEAN :
       LET p == pass[w]
           n == p.name
           csr == AppendCondition(p.csr, Cond(CertificateFailed, p.reason))
           q == Written(Log(p, "StatusUpdate", ok, p.reason))
       IN /\ ok => store[n].exists
          /\ store' = IF ok THEN [store EXCEPT ![n].status = csr.status]
                      ELSE store
          /\ pass' = [pass EXCEPT ![w] =
               IF ok THEN AfterRecord(q) ELSE UpdateFailed(q)]
  /\ UNCHANGED <<caSecret, health, rotated>>

\* Lines 252-253: SetDegraded with reason UpdateFailure.
updateCSRStatusConditionsDegrade(w) ==
  /\ pass[w].pc = "SetDegradedUpdateFailure"
  /\ health' = SetDegraded(CertificateSigner, "UpdateFailure")
  /\ pass' = [pass EXCEPT ![w] =
       AfterRecord(Log(pass[w], "SetDegraded", TRUE, "UpdateFailure"))]
  /\ UNCHANGED <<store, caSecret, rotated>>

\* Line 238: signerFailure degrades with the reason of the failure.
signerFailure(w) ==
  /\ pass[w].pc = "SetDegraded"
  /\ health' = SetDegraded(CertificateSigner, pass[w].reason)
  /\ pass' = [pass EXCEPT ![w] =
       Return(Log(pass[w], "SetDegraded", TRUE, pass[w].reason),
              IF pass[w].retErr THEN "err" ELSE "nil")]
  /\ UNCHANGED <<store, caSecret, rotated>>

AfterStatusUpdate_noClear(p, ok) ==
  IF ok THEN Return(p, "nil") ELSE Return(p, "err")

AfterStatusUpdate_recordsFailure(p, ok) ==
  IF ok THEN [p EXCEPT !.pc = "SetNotDegraded"]
  ELSE [p EXCEPT !.pc = "SetDegraded", !.reason = "UpdateFailure"]

\* Lines 204-210: a failed update returns the error, a successful one goes
\* on to clear the degraded state.
AfterStatusUpdate(p, ok) ==
  IF ok THEN [p EXCEPT !.pc = "SetNotDegraded"] ELSE Return(p, "err")

\* Lines 203-207: the status update that stores the certificate.
ReconcileStatusUpdate(w) ==
  /\ pass[w].pc = "StatusUpdate"
  /\ \E ok \in BOOLEAN :
       LET p == pass[w]
           n == p.name
           q == Written(Log(p, "StatusUpdate", ok, "certificate"))
       IN /\ ok => store[n].exists
          /\ store' = IF ok THEN [store EXCEPT ![n].status = p.csr.status]
                      ELSE store
          /\ pass' = [pass EXCEPT ![w] = AfterStatusUpdate(q, ok)]
  /\ UNCHANGED <<caSecret, health, rotated>>

\* Lines 209-211: full success clears the degraded state.
ReconcileSetNotDegraded(w) ==
  /\ pass[w].pc = "SetNotDegraded"
  /\ health' = SetNotDegraded(CertificateSigner)
  /\ pass' = [pass EXCEPT ![w] =
       Return(Log(pass[w], "SetNotDegraded", TRUE, ""), "nil")]
  /\ UNCHANGED <<store, caSecret, rotated>>

\* ------------------------------------------------------------ environment
\* The operator rotates, breaks, removes or repairs the CA secret.
RotateCA ==
  /\ \E ca \in CAStates : ca # caSecret /\ caSecret' = ca
  /\ rotated' = TRUE
  /\ UNCHANGED <<store, health, pass>>

\* The requester deletes its request.
DeleteRequest ==
  /\ \E n \in Names :
       /\ store[n].exists
       /\ store' = [store EXCEPT ![n] = NoCSR]
  /\ UNCHANGED <<caSecret, health, pass, rotated>>

\* Deliveries stop once the reconciler has appended k conditions.
Budget(k) ==
  \A n \in Names :
    store[n].exists => Appended(store[n].status.conditions) < k

Step(w, k) ==
  \/ Budget(k) /\ ReconcileGet(w)
  \/ ReconcileUpdateApproval(w)
  \/ ReconcileGetCA(w)
  \/ updateCSRStatusConditions(w)
  \/ updateCSRStatusConditionsDegrade(w)
  \/ signerFailure(w)
  \/ ReconcileStatusUpdate(w)
  \/ ReconcileSetNotDegraded(w)

\* The controller is created with its default of one worker (line 53):
\* passes run to completion, one after the other.
Next ==
  \/ Step(1, MaxAppended)
  \/ RotateCA
  \/ DeleteRequest

Spec == Init /\ [][Next]_vars

\* A step of the worker other than a fetch that ends in an error: the fetch
\* reads the cache of the client, which answers found or not found.
Answered(w) ==
  /\ Step(w, MaxAppended)
  /\ pass'[w].calls[1] # Call("Get", FALSE, "Error")

\* Every delivered identifier is fetched, and a pass that was started runs
\* to its return: the worker never stops while it has such a step to take.
SpecFair == Spec /\ WF_vars(Answered(1))

\* The dispatch mechanism as section 6 of the specification describes it:
\* the same identifier may be redelivered while a pass on it is in flight.
NextConcurrent ==
  \/ \E w \in Workers : Step(w, MaxAppendedConcurrent)
  \/ RotateCA
  \/ DeleteRequest

SpecConcurrent == Init /\ [][NextConcurrent]_vars

TypeOK ==
  /\ caSecret \in CAStates
  /\ health.state \in {"Unset", "Degraded", "NotDegraded"}
  /\ \A w \in Workers :
       pass[w].pc \in {"idle", "done", "UpdateApproval", "GetCA",
                       "StatusUpdateFailed", "SetDegradedUpdateFailure",
                       "SetDegraded", "StatusUpdate", "SetNotDegraded"}
  /\ rotated \in BOOLEAN

\* ================================================================= claims
Made(p, op) == \E i \in DOMAIN p.calls : p.calls[i].op = op

MadeOK(p, op) ==
  \E i \in DOMAIN p.calls : p.calls[i].op = op /\ p.calls[i].ok

HealthCalls(p) ==
  {i \in DOMAIN p.calls : p.calls[i].op \in {"SetDegraded", "SetNotDegraded"}}

WriteCalls(p) ==
  {i \in DOMAIN p.calls : p.calls[i].op \in {"UpdateApproval", "StatusUpdate"}}

Certificate(n) == store[n].status.certificate

\* The step is taken by the pass of worker w.
Acts(w) == pass'[w] # pass[w]

\* Worker w returns from Reconcile in this step.
Returns(w) == pass[w].pc # "done" /\ pass'[w].pc = "done"

\* The pass fetched a request of this signer that has no certificate yet.
SawPending(p) == p.saw.found /\ p.saw.owned /\ ~p.saw.certified

\* A pass gets past the approval decision only into these positions.
SigningPositions ==
  {"GetCA", "StatusUpdateFailed", "SetDegradedUpdateFailure", "SetDegraded",
   "StatusUpdate", "SetNotDegraded"}

C2_DenialPrecedence ==
  /\ [](\A w \in Workers :
          pass[w].saw.denied =>
            /\ pass[w].pc \notin SigningPositions
            /\ ~Made(pass[w], "GetCA")
            /\ ~Made(pass[w], "StatusUpdate"))
  /\ [][\A w \in Workers, n \in Names :
          Acts(w) /\ pass'[w].saw.denied
            => store'[n].status.certificate = Certificate(n)]_vars

\* C2 witness: a pass ran on an unsigned request of this signer that carries
\* both an Approved and a Denied condition.
C2_Witness ==
  \E w \in Workers :
    /\ pass[w].pc = "done"
    /\ SawPending(pass[w])
    /\ pass[w].saw.denied /\ pass[w].saw.approved /\ pass[w].saw.decodable
    /\ caSecret = ValidCA

\* C3 (as claimed): a pass on a request that carries a Denied condition
\* appends no Approved condition and issues no approval update.
C3_NoApprovalOfDenied ==
  \A w \in Workers :
    pass[w].saw.denied =>
      pass[w].pc # "UpdateApproval" /\ ~Made(pass[w], "UpdateApproval")

\* C4: a pass that calls the approval update, whatever its outcome, returns
\* right after it: it made the fetch and that call and nothing else, and the
\* step of the call leaves the stored certificate as it was.
C4_ApprovalEndsThePass ==
  /\ [](\A w \in Workers :
          Made(pass[w], "UpdateApproval") =>
            /\ pass[w].pc = "done"
            /\ Len(pass[w].calls) = 2
            /\ pass[w].result = (IF pass[w].calls[2].ok THEN "nil" ELSE "err"))
  /\ [][\A w \in Workers, n \in Names :
          Acts(w) /\ pass[w].pc = "UpdateApproval"
            => store'[n].status.certificate = Certificate(n)]_vars

\* C4 witness: a pass approved a request that could have been signed at
\* once: it is decodable and the CA is valid.
C4_Witness ==
  \E w \in Workers :
    /\ pass[w].pc = "done"
    /\ MadeOK(pass[w], "UpdateApproval")
    /\ pass[w].saw.decodable /\ ~pass[w].saw.denied
    /\ caSecret = ValidCA /\ ~rotated

\* C5: a pass that fetched a request of another signer makes no call but
\* the fetch, returns nil, and changes neither the store nor the health.
C5_OwnershipFilter ==
  /\ [](\A w \in Workers :
          pass[w].saw.found /\ ~pass[w].saw.owned =>
            /\ pass[w].pc = "done"
            /\ pass[w].calls = <<Call("Get", TRUE, "")>>
            /\ pass[w].result = "nil")
  /\ [][\A w \in Workers :
          Acts(w) /\ pass'[w].saw.found /\ ~pass'[w].saw.owned
            => store' = store /\ health' = health]_vars

\* C5 witness: a pass ran on another signer's request that is approved,
\* unsigned and decodable, with a valid CA.
C5_Witness ==
  \E w \in Workers :
    /\ pass[w].pc = "done"
    /\ pass[w].saw.found /\ ~pass[w].saw.owned
    /\ pass[w].saw.approved /\ ~pass[w].saw.denied
    /\ ~pass[w].saw.certified /\ pass[w].saw.decodable
    /\ caSecret = ValidCA

\* C6: a pass that fetched a request of this signer that already carries a
\* certificate makes no call but the fetch, returns nil, and changes neither
\* the store nor the health, whatever the conditions and the CA secret.
C6_IssuanceIsOneShot ==
  /\ [](\A w \in Workers :
          pass[w].saw.owned /\ pass[w].saw.certified =>
            /\ pass[w].pc = "done"
            /\ pass[w].calls = <<Call("Get", TRUE, "")>>
            /\ pass[w].result = "nil")
  /\ [][\A w \in Workers :
          Acts(w) /\ pass'[w].saw.owned /\ pass'[w].saw.certified
            => store' = store /\ health' = health]_vars

\* C6 witness: a pass ran on a certified request of this signer that has no
\* approval recorded, while the CA secret is unreadable.
C6_Witness ==
  \E w \in Workers :
    /\ pass[w].pc = "done"
    /\ pass[w].saw.owned /\ pass[w].saw.certified
    /\ ~pass[w].saw.approved /\ ~pass[w].saw.denied
    /\ ~caSecret.readable

PermanentReasons ==
  {"CSRDecodeFailure", "CorruptCACert", "CorruptCAKey", "SigningFailure",
   "EncodeFailure"}

PermanentFailures(n) ==
  {i \in DOMAIN store[n].status.conditions :
     /\ store[n].status.conditions[i].type = CertificateFailed
     /\ store[n].status.conditions[i].reason \in PermanentReasons}

\* C7 (as claimed): while the CA secret is left as it was, a request holds
\* at most one Failed condition of a permanent fault: once one is recorded,
\* further deliveries record no other.
C7_PermanentFailureRecordedOnce ==
  \A n \in Names : ~rotated => Cardinality(PermanentFailures(n)) <= 1

\* The pass fetched an approved, unsigned request of this signer whose PEM
\* does not decode, read the CA secret, and returned.
MalformedPass(p) ==
  /\ p.pc = "done"
  /\ SawPending(p) /\ p.saw.approved /\ ~p.saw.denied /\ ~p.saw.decodable
  /\ MadeOK(p, "GetCA")

RecordsOnly(p, reason) ==
  /\ Len(p.calls) >= 3
  /\ p.calls[3].op = "StatusUpdate" /\ p.calls[3].arg = reason
  /\ p.result = "nil"

\* C8 (as claimed): such a pass sends a Failed condition with reason
\* CSRDecodeFailure, returns nil and makes no health call, whatever the
\* outcome of the status update.
C8_MalformedNeverDegrades ==
  \A w \in Workers :
    MalformedPass(pass[w]) =>
      RecordsOnly(pass[w], "CSRDecodeFailure") /\ HealthCalls(pass[w]) = {}

\* C8 (amended): such a pass sends a Failed condition with reason
\* CSRDecodeFailure and returns nil; it makes no health call when the status
\* update succeeds, and exactly one, SetDegraded with reason UpdateFailure,
\* when the status update fails.  Its steps change the health in no other
\* way, and a successful update stores the fetched conditions followed by
\* the new one.
C8_MalformedDegradesOnlyOnLostRecord ==
  /\ [](\A w \in Workers :
          MalformedPass(pass[w]) =>
            /\ RecordsOnly(pass[w], "CSRDecodeFailure")
            /\ pass[w].calls[3].ok => Len(pass[w].calls) = 3
            /\ ~pass[w].calls[3].ok =>
                 /\ Len(pass[w].calls) = 4
                 /\ pass[w].calls[4] =
                      Call("SetDegraded", TRUE, "UpdateFailure"))
  /\ [][\A w \in Workers, n \in Names :
          Acts(w) /\ pass[w].reason = "CSRDecodeFailure" /\ pass[w].name = n
            => /\ health' # health =>
                    /\ ~pass[w].calls[3].ok
                    /\ health' =
                         SetDegraded(CertificateSigner, "UpdateFailure")
               /\ store' # store =>
                    store'[n].status.conditions =
                      Append(pass[w].fetched.status.conditions,
                             Cond(CertificateFailed, "CSRDecodeFailure"))
         ]_vars

\* C8 witness: a pass on a malformed request recorded the failure and left
\* the health as it was at the start.
C8_Witness ==
  \E w \in Workers :
    /\ MalformedPass(pass[w])
    /\ pass[w].calls[3].ok
    /\ health = NoHealth

\* A status update that was to record a Failed condition failed.
LostRecord(p, i) ==
  /\ p.calls[i].op = "StatusUpdate"
  /\ p.calls[i].arg # "certificate"
  /\ ~p.calls[i].ok

\* C9: when the status update that records a Failed condition fails, the
\* next call of the pass is SetDegraded with reason UpdateFailure, the last
\* call of the pass is a SetDegraded, and the pass returns with the health
\* Degraded.
C9_LostRecordDegrades ==
  /\ [](\A w \in Workers : \A i \in DOMAIN pass[w].calls :
          LostRecord(pass[w], i) =>
            /\ i = Len(pass[w].calls)
                 => pass[w].pc = "SetDegradedUpdateFailure"
            /\ i < Len(pass[w].calls)
                 => pass[w].calls[i + 1] =
                      Call("SetDegraded", TRUE, "UpdateFailure")
            /\ pass[w].pc = "done"
                 => pass[w].calls[Len(pass[w].calls)].op = "SetDegraded")
  /\ [][\A w \in Workers :
          Returns(w) /\ (\E i \in DOMAIN pass'[w].calls :
                           LostRecord(pass'[w], i))
            => health'.state = "Degraded"]_vars

\* C9 witness: the record of a CSRDecodeFailure was lost and the pass
\* returned, leaving the health Degraded for UpdateFailure.
C9_Witness ==
  \E w \in Workers :
    /\ pass[w].pc = "done"
    /\ \E i \in DOMAIN pass[w].calls :
         LostRecord(pass[w], i) /\ pass[w].calls[i].arg = "CSRDecodeFailure"
    /\ health = SetDegraded(CertificateSigner, "UpdateFailure")

\* C10: a pass on an approved, unsigned request of this signer whose read of
\* the CA secret fails sends a status update with a Failed condition of
\* reason CAFailure (stored, appended to the fetched conditions, when the
\* update succeeds), makes SetDegraded with reason CAFailure its last call,
\* returns err with the health Degraded for CAFailure, and sets no
\* certificate.
C10_UnreadableCA ==
  /\ [](\A w \in Workers :
          LET p == pass[w]
          IN  p.pc = "done" /\ Made(p, "GetCA") /\ ~MadeOK(p, "GetCA") =>
                /\ SawPending(p) /\ p.saw.approved /\ ~p.saw.denied
                /\ p.calls[3].op = "StatusUpdate"
                /\ p.calls[3].arg = "CAFailure"
                /\ p.calls[Len(p.calls)] =
                     Call("SetDegraded", TRUE, "CAFailure")
                /\ Cardinality(WriteCalls(p)) = 1
                /\ p.result = "err")
  /\ [][\A w \in Workers, n \in Names :
          Acts(w) /\ pass[w].reason = "CAFailure" /\ pass[w].name = n =>
            /\ store'[n].status.certificate = Certificate(n)
            /\ store' # store =>
                 store'[n].status.conditions =
                   Append(pass[w].fetched.status.conditions,
                          Cond(CertificateFailed, "CAFailure"))
            /\ Returns(w) =>
                 health' = SetDegraded(CertificateSigner, "CAFailure")]_vars

\* C10 witness: the CA secret was unreadable, the condition was stored and
\* the pass returned err.
C10_Witness ==
  \E w \in Workers, n \in Names :
    /\ pass[w].pc = "done" /\ pass[w].result = "err"
    /\ Made(pass[w], "GetCA") /\ ~MadeOK(pass[w], "GetCA")
    /\ MadeOK(pass[w], "StatusUpdate")
    /\ store[n].exists /\ Certificate(n) = <<>>
    /\ \E i \in DOMAIN store[n].status.conditions :
         store[n].status.conditions[i] = Cond(CertificateFailed, "CAFailure")
    /\ health = SetDegraded(CertificateSigner, "CAFailure")

\* The pass fetched an approved, unsigned, decodable request of this signer
\* and read a CA secret of the given classes.
IssuingPass(p, classes) ==
  /\ SawPending(p) /\ p.saw.approved /\ ~p.saw.denied /\ p.saw.decodable
  /\ \E i \in DOMAIN p.calls :
       p.calls[i].op = "GetCA" /\ p.calls[i].ok /\ p.calls[i].arg \in classes

AllUpdatesOK(p) ==
  /\ Made(p, "StatusUpdate")
  /\ \A i \in DOMAIN p.calls : p.calls[i].op = "StatusUpdate" => p.calls[i].ok

SuccessCalls ==
  << Call("Get", TRUE, ""), Call("GetCA", TRUE, "valid"),
     Call("EncodeCertificates", TRUE, ""),
     Call("StatusUpdate", TRUE, "certificate"),
     Call("SetNotDegraded", TRUE, "") >>

\* C11 (as claimed): a pass on an approved, unsigned, decodable request of
\* this signer that read a readable and decodable CA and whose status update
\* succeeded stored the certificate, cleared the degraded state and
\* returned nil.
C11_DecodableCAIssues ==
  \A w \in Workers :
    /\ pass[w].pc = "done"
    /\ IssuingPass(pass[w], {"valid", "decodable"})
    /\ AllUpdatesOK(pass[w])
    => pass[w].calls = SuccessCalls /\ pass[w].result = "nil"

\* C11 (amended): the same when moreover the CA pair signs the request and
\* the encoding succeeds: the calls are the fetch, the CA read, the
\* encoding, one status update and SetNotDegraded after it, nil is returned,
\* and the status update stores a non-empty certificate with the fetched
\* conditions unchanged.
C11_SuccessfulIssuance ==
  /\ [](\A w \in Workers :
          /\ pass[w].pc = "done"
          /\ IssuingPass(pass[w], {"valid"})
          /\ MadeOK(pass[w], "EncodeCertificates")
          /\ AllUpdatesOK(pass[w])
          => pass[w].calls = SuccessCalls /\ pass[w].result = "nil")
  /\ [][\A w \in Workers, n \in Names :
          /\ Acts(w) /\ pass[w].pc = "StatusUpdate" /\ pass[w].name = n
          /\ store' # store
          => /\ Len(store'[n].status.certificate) # 0
             /\ store'[n].status.conditions =
                  pass[w].fetched.status.conditions
             /\ pass'[w].pc = "SetNotDegraded"]_vars

\* C11 witness: a pass issued a certificate; it is stored and the health is
\* NotDegraded.
C11_Witness ==
  \E w \in Workers, n \in Names :
    /\ pass[w].pc = "done"
    /\ pass[w].calls = SuccessCalls
    /\ Len(Certificate(n)) # 0
    /\ health = SetNotDegraded(CertificateSigner)

\* The pass fetched an unsigned request of this signer with neither an
\* Approved nor a Denied condition.
UndecidedPass(p) == SawPending(p) /\ ~p.saw.approved /\ ~p.saw.denied

\* C12: a pass on an undecided, unsigned request of this signer makes the
\* fetch and one approval update and no other call (no status update, no
\* health call); a successful approval update stores the fetched conditions
\* followed by one Approved condition of reason AutoApproved, and leaves the
\* certificate and the health as they were.
C12_ApprovalPass ==
  /\ [](\A w \in Workers :
          UndecidedPass(pass[w]) =>
            /\ pass[w].pc \in {"UpdateApproval", "done"}
            /\ pass[w].pc = "UpdateApproval" =>
                 pass[w].calls = <<Call("Get", TRUE, "")>>
            /\ pass[w].pc = "done" =>
                 /\ Len(pass[w].calls) = 2
                 /\ pass[w].calls[2].op = "UpdateApproval")
  /\ [][\A w \in Workers, n \in Names :
          Acts(w) /\ UndecidedPass(pass[w]) /\ pass[w].name = n =>
            /\ health' = health
            /\ store'[n].status.certificate = Certificate(n)
            /\ store' # store =>
                 store'[n].status.conditions =
                   Append(pass[w].fetched.status.conditions,
                          Cond(CertificateApproved, "AutoApproved"))]_vars

\* C12 witness: the approval of an undecided request was stored: the request
\* holds the one Approved condition, no certificate, and the health is unset.
C12_Witness ==
  \E w \in Workers, n \in Names :
    /\ pass[w].pc = "done" /\ UndecidedPass(pass[w])
    /\ MadeOK(pass[w], "UpdateApproval")
    /\ store[n].status.conditions =
         <<Cond(CertificateApproved, "AutoApproved")>>
    /\ Certificate(n) = <<>>
    /\ health = NoHealth

\* The fetch of the pass failed.
FetchFailed(p) == Len(p.calls) >= 1 /\ ~p.calls[1].ok

\* C13: a pass whose fetch reports not-found returns nil, one whose fetch
\* fails otherwise returns the error; either makes no other call, and its
\* step changes neither the store nor the health.
C13_FetchOutcomes ==
  /\ [](\A w \in Workers :
          FetchFailed(pass[w]) =>
            /\ pass[w].pc = "done"
            /\ Len(pass[w].calls) = 1
            /\ pass[w].calls[1].op = "Get"
            /\ pass[w].result =
                 (IF pass[w].calls[1].arg = "NotFound" THEN "nil" ELSE "err"))
  /\ [][\A w \in Workers :
          Acts(w) /\ FetchFailed(pass'[w])
            => store' = store /\ health' = health]_vars

\* C13 witness: the request was deleted after the reconciler had written to
\* it, and the next pass found nothing.
C13_Witness ==
  \E w \in Workers, n \in Names :
    /\ pass[w].pc = "done" /\ pass[w].name = n
    /\ pass[w].calls = <<Call("Get", FALSE, "NotFound")>>
    /\ ~store[n].exists
    /\ health # NoHealth

\* The status update that was to store the certificate failed.
CertificateUpdateFailed(p) ==
  \E i \in DOMAIN p.calls :
    p.calls[i] = Call("StatusUpdate", FALSE, "certificate")

\* C14: when the status update that stores the certificate fails, that call
\* is the last of the pass and its only update, no health call is made, err
\* is returned, and the stored request is left as it was fetched, with an
\* empty certificate and no Failed condition added.
C14_PersistenceFailureIsTransient ==
  /\ [](\A w \in Workers :
          CertificateUpdateFailed(pass[w]) =>
            /\ pass[w].pc = "done"
            /\ pass[w].result = "err"
            /\ pass[w].calls =
                 << Call("Get", TRUE, ""), Call("GetCA", TRUE, "valid"),
                    Call("EncodeCertificates", TRUE, ""),
                    Call("StatusUpdate", FALSE, "certificate") >>)
  /\ [][\A w \in Workers, n \in Names :
          /\ Acts(w) /\ pass[w].name = n
          /\ CertificateUpdateFailed(pass'[w])
          => /\ store' = store /\ health' = health
             /\ store[n].exists =>
                  /\ store[n] = pass[w].fetched
                  /\ Certificate(n) = <<>>]_vars

\* C14 witness: the update failed, the pass returned err, and the request is
\* still stored, approved and without certificate.
C14_Witness ==
  \E w \in Workers, n \in Names :
    /\ pass[w].pc = "done" /\ pass[w].result = "err"
    /\ CertificateUpdateFailed(pass[w])
    /\ store[n].exists /\ Certificate(n) = <<>>
    /\ isCertificateRequestApproved(store[n])

SystemicReasons ==
  {"CorruptCACert", "CorruptCAKey", "SigningFailure", "EncodeFailure"}

\* The failure that the secret read makes the pass record, if any.
ExpectedReason(ca, encodeOK) ==
  IF ca.crt # "validCertPEM" THEN "CorruptCACert"
  ELSE IF ca.key = "malformed" THEN "CorruptCAKey"
  ELSE IF ca.key = "incompatibleKeyPEM" THEN "SigningFailure"
  ELSE IF ~encodeOK THEN "EncodeFailure"
  ELSE ""

\* C15: on a decodable request, a CA certificate that does not decode, a CA
\* key that does not decode, a failed signing and a failed encoding make the
\* pass record CorruptCACert, CorruptCAKey, SigningFailure and EncodeFailure
\* respectively; the pass sends one status update with that Failed
\* condition (stored after the fetched conditions, with an empty
\* certificate, when the update succeeds), makes SetDegraded with the same
\* reason its last call, returns nil and leaves the health Degraded with
\* that reason.
C15_SystemicFaults ==
  /\ [](\A w \in Workers : \A i \in DOMAIN pass[w].calls :
          /\ pass[w].pc = "done"
          /\ pass[w].calls[i].op = "StatusUpdate"
          /\ pass[w].calls[i].arg \in SystemicReasons
          => /\ pass[w].result = "nil"
             /\ Cardinality(WriteCalls(pass[w])) = 1
             /\ pass[w].calls[Len(pass[w].calls)] =
                  Call("SetDegraded", TRUE, pass[w].calls[i].arg))
  /\ [][\A w \in Workers, n \in Names :
          Acts(w) /\ pass[w].name = n =>
            /\ pass[w].pc = "GetCA" /\ caSecret.readable
                 /\ pass[w].saw.decodable =>
                 pass'[w].reason =
                   ExpectedReason(caSecret,
                                  MadeOK(pass'[w], "EncodeCertificates"))
            /\ pass[w].reason \in SystemicReasons =>
                 /\ store' # store =>
                      /\ store'[n].status.conditions =
                           Append(pass[w].fetched.status.conditions,
                                  Cond(CertificateFailed, pass[w].reason))
                      /\ store'[n].status.certificate = <<>>
                 /\ store'[n].status.certificate = Certificate(n)
                 /\ Returns(w) =>
                      health' = SetDegraded(CertificateSigner,
                                            pass[w].reason)]_vars

\* C15 witness: a signing failure was recorded on the request, nil was
\* returned and the health is Degraded for SigningFailure.
C15_Witness ==
  \E w \in Workers, n \in Names :
    /\ pass[w].pc = "done" /\ pass[w].result = "nil"
    /\ \E i \in DOMAIN pass[w].calls :
         pass[w].calls[i] = Call("StatusUpdate", TRUE, "SigningFailure")
    /\ store[n].exists /\ Certificate(n) = <<>>
    /\ \E i \in DOMAIN store[n].status.conditions :
         store[n].status.conditions[i] =
           Cond(CertificateFailed, "SigningFailure")
    /\ health = SetDegraded(CertificateSigner, "SigningFailure")

\* The request is owned, decodable, undecided and unsigned.
Pending(n) ==
  /\ store[n].exists
  /\ store[n].spec.signerName = signerName
  /\ store[n].spec.request = "validCSRPEM"
  /\ ~getCertApprovalCondition(store[n].status).approved
  /\ ~getCertApprovalCondition(store[n].status).denied
  /\ Certificate(n) = <<>>

\* The request holds what exactly one approval write and one certificate
\* write of the reconciler leave: its Approved condition and certificate s.
IssuedWith(n, s) ==
  /\ store[n].exists
  /\ store[n].status.conditions = <<Cond(CertificateApproved, "AutoApproved")>>
  /\ Certificate(n) = <<s>>

IssuedInTwo(n) == \E s \in Serials : IssuedWith(n, s)

\* The request is issued and the last delivery returned without a write.
Settled(n) ==
  /\ IssuedInTwo(n)
  /\ pass[1].pc = "done" /\ pass[1].name = n
  /\ pass[1].result = "nil"
  /\ WriteCalls(pass[1]) = {}

\* No call to the store made by the pass at hand has failed.
StoreCallsOK ==
  \A w \in Workers : \A i \in DOMAIN pass[w].calls :
    pass[w].calls[i].op # "EncodeCertificates" => pass[w].calls[i].ok

\* No call made by the pass at hand has failed, the encoding included.
AllCallsOK ==
  \A w \in Workers : \A i \in DOMAIN pass[w].calls : pass[w].calls[i].ok

\* Every write of the request is followed by a delivery: the request never
\* holds so many appended conditions that deliveries have stopped.
DeliveriesGoOn == Budget(MaxAppended)

\* C16 (as claimed): with the CA secret always valid, every store call
\* succeeding and every write followed by a delivery, an undecided
\* unsigned request of this signer is eventually
\* issued by exactly one approval write and one certificate write and from
\* then on stays as it is, with deliveries that return without a write; no
\* step of a pass changes a request so issued.
C16_EventualIssuance ==
  /\ ([](caSecret = ValidCA) /\ []StoreCallsOK /\ []DeliveriesGoOn) =>
       \A n \in Names : Pending(n) ~> []Settled(n)
  /\ [][\A n \in Names :
          IssuedInTwo(n) /\ Acts(1) => store' = store]_vars

\* C16 (amended): the same, when the encoding of the signed certificate
\* succeeds as well.
C16_EventualIssuanceWhenEncoded ==
  /\ ([](caSecret = ValidCA) /\ []AllCallsOK /\ []DeliveriesGoOn) =>
       \A n \in Names : Pending(n) ~> []Settled(n)
  /\ [][\A n \in Names :
          IssuedInTwo(n) /\ Acts(1) => store' = store]_vars

\* C16 witness: the request was issued in two writes under a valid CA that
\* never changed, and a further delivery returned without writing.
C16_Witness ==
  \E n \in Names :
    /\ Settled(n)
    /\ pass[1].calls = <<Call("Get", TRUE, "")>>
    /\ caSecret = ValidCA /\ ~rotated
    /\ health = SetNotDegraded(CertificateSigner)

\* The pass has sent the status update that carries the certificate.
SentCertificate(p) ==
  \E i \in DOMAIN p.calls :
    p.calls[i].op = "StatusUpdate" /\ p.calls[i].arg = "certificate"

\* C17: a pass that is about to send, or has sent, the status update with
\* the certificate fetched a request of this signer that held an Approved
\* and no Denied condition, and made no approval update itself; a pass
\* whose approval update failed returns the error without storing a
\* certificate; and a step stores a certificate on a request that had none
\* only if the stored request is approved and not denied.
C17_CertificateOnlyAfterApproval ==
  /\ [](\A w \in Workers :
          /\ pass[w].pc = "StatusUpdate" \/ SentCertificate(pass[w]) =>
               /\ pass[w].saw.found /\ pass[w].saw.owned
               /\ pass[w].saw.approved /\ ~pass[w].saw.denied
               /\ ~Made(pass[w], "UpdateApproval")
          /\ Made(pass[w], "UpdateApproval")
               /\ ~MadeOK(pass[w], "UpdateApproval") =>
               /\ pass[w].pc = "done" /\ pass[w].result = "err"
               /\ ~SentCertificate(pass[w]))
  /\ [][\A n \in Names :
          /\ Certificate(n) = <<>>
          /\ store'[n].exists /\ store'[n].status.certificate # <<>>
          => /\ isCertificateRequestApproved(store[n])
             /\ store[n].spec.signerName = signerName
             /\ \A w \in Workers :
                  Made(pass[w], "UpdateApproval") =>
                    MadeOK(pass[w], "UpdateApproval")]_vars

\* C17 witness: a pass stored a certificate on a request that an earlier
\* pass of the reconciler had approved.
C17_Witness ==
  \E w \in Workers, n \in Names :
    /\ pass[w].name = n
    /\ pass[w].calls[Len(pass[w].calls)] =
         Call("StatusUpdate", TRUE, "certificate")
    /\ pass[w].saw.approved /\ ~pass[w].saw.denied
    /\ store[n].exists /\ Certificate(n) # <<>>
    /\ store[n].status.conditions =
         <<Cond(CertificateApproved, "AutoApproved")>>

CAFailureReasons == {"CAFailure", "CorruptCACert", "CorruptCAKey"}

\* The request carries a Failed condition with one of the reasons.
HasFailure(csr, reasons) ==
  \E i \in DOMAIN csr.status.conditions :
    /\ csr.status.conditions[i].type = CertificateFailed
    /\ csr.status.conditions[i].reason \in reasons

\* The pass ran on an approved, unsigned request of this signer while the
\* CA secret was valid: it read no other secret and the secret is valid.
PassOnValidCA(p) ==
  /\ p.pc = "done"
  /\ SawPending(p) /\ p.saw.approved /\ ~p.saw.denied
  /\ caSecret = ValidCA
  /\ \A i \in DOMAIN p.calls :
       p.calls[i].op = "GetCA" => p.calls[i].ok /\ p.calls[i].arg = "valid"

\* C18 (as claimed): a pass on an approved, unsigned request that carries
\* a Failed condition for the CA (CAFailure, CorruptCACert, CorruptCAKey),
\* run once the CA secret is valid and with every call to the store
\* succeeding, leaves a non-empty certificate on the request and the health
\* NotDegraded.
C18_RepairedCAIssues ==
  \A w \in Workers, n \in Names :
    /\ PassOnValidCA(pass[w]) /\ pass[w].name = n
    /\ StoreCallsOK
    /\ store[n].exists /\ HasFailure(store[n], CAFailureReasons)
    => /\ Certificate(n) # <<>>
       /\ health = SetNotDegraded(CertificateSigner)

\* C18 (amended): the same when moreover the request PEM decodes and no
\* call of the pass fails, the encoding and the status update included:
\* the pass read the CA secret, stored a non-empty certificate, made
\* SetNotDegraded its last call and returned nil.
C18_RecoveryAfterRepair ==
  \A w \in Workers, n \in Names :
    /\ PassOnValidCA(pass[w]) /\ pass[w].name = n
    /\ pass[w].saw.decodable
    /\ \A i \in DOMAIN pass[w].calls : pass[w].calls[i].ok
    /\ store[n].exists /\ HasFailure(store[n], CAFailureReasons)
    => /\ pass[w].calls = SuccessCalls /\ pass[w].result = "nil"
       /\ Certificate(n) # <<>>
       /\ health = SetNotDegraded(CertificateSigner)

\* C18 witness: the CA secret was changed, and a pass on a request that
\* carries a CAFailure condition stored a certificate and cleared the
\* degraded state.
C18_Witness ==
  \E w \in Workers, n \in Names :
    /\ PassOnValidCA(pass[w]) /\ pass[w].name = n
    /\ pass[w].calls = SuccessCalls
    /\ rotated
    /\ store[n].exists /\ HasFailure(store[n], {"CAFailure"})
    /\ Certificate(n) # <<>>
    /\ health = SetNotDegraded(CertificateSigner)

\* C19: a pass sends at most one write of the request, failed attempts
\* counted: no write, one approval update, or one status update that
\* carries a Failed condition or the certificate; and a step of a pass that
\* changes the stored request is the first write of that pass.
C19_OneWritePerPass ==
  /\ [](\A w \in Workers :
          /\ Cardinality(WriteCalls(pass[w])) <= 1
          /\ \A i \in WriteCalls(pass[w]) :
               \/ pass[w].calls[i].op = "UpdateApproval"
               \/ pass[w].calls[i].arg \in
                    {"certificate", "CAFailure", "CSRDecodeFailure"}
                      \cup SystemicReasons)
  /\ [][\A w \in Workers :
          Acts(w) /\ store' # store =>
            /\ WriteCalls(pass[w]) = {}
            /\ Cardinality(WriteCalls(pass'[w])) = 1]_vars

\* C19 witness: a pass that recorded a corrupt CA certificate made one
\* write of the request and one health call after it.
C19_Witness ==
  \E w \in Workers :
    /\ pass[w].pc = "done"
    /\ pass[w].calls =
         << Call("Get", TRUE, ""), Call("GetCA", TRUE, "corrupt"),
            Call("StatusUpdate", TRUE, "CorruptCACert"),
            Call("SetDegraded", TRUE, "CorruptCACert") >>
    /\ Cardinality(WriteCalls(pass[w])) = 1

\* The conditions a pass can add.
NewConditions ==
  {Cond(CertificateApproved, "AutoApproved")} \cup
  {Cond(CertificateFailed, r) :
     r \in {"CAFailure", "CSRDecodeFailure"} \cup SystemicReasons}

\* The sequence new is old, or old followed by one condition a pass adds.
Extends(new, old) ==
  \/ new = old
  \/ \E c \in NewConditions : new = Append(old, c)

\* C20: the copy of the request a pass is about to send holds the fetched
\* conditions in their order, followed by the new Approved condition in
\* the approval branch, and the fetched signerName and request bytes; a
\* step of a pass that changes the stored request leaves the conditions it
\* fetched, which are the stored ones, followed by at most one new
\* Approved or Failed condition; and no step of a pass deletes a request
\* or changes its signerName or request bytes.
C20_ConditionsAppendOnly ==
  /\ [](\A w \in Workers :
          /\ pass[w].pc = "UpdateApproval" =>
               /\ pass[w].csr.status.conditions =
                    Append(pass[w].fetched.status.conditions,
                           Cond(CertificateApproved, "AutoApproved"))
               /\ pass[w].csr.spec = pass[w].fetched.spec
          /\ pass[w].pc \in {"GetCA", "StatusUpdate", "StatusUpdateFailed"} =>
               /\ pass[w].csr.status.conditions =
                    pass[w].fetched.status.conditions
               /\ pass[w].csr.spec = pass[w].fetched.spec)
  /\ [][\A w \in Workers, n \in Names :
          Acts(w) =>
            /\ store'[n].exists = store[n].exists
            /\ store'[n].spec = store[n].spec
            /\ store'[n] # store[n] =>
                 /\ pass[w].name = n
                 /\ Extends(store'[n].status.conditions,
                            pass[w].fetched.status.conditions)
                 /\ Extends(store'[n].status.conditions,
                            store[n].status.conditions)]_vars

\* C20 witness: a Failed condition was stored after the Approved condition
\* that the request already carried.
C20_Witness ==
  \E w \in Workers, n \in Names :
    /\ pass[w].name = n
    /\ MadeOK(pass[w], "StatusUpdate")
    /\ store[n].exists
    /\ store[n].status.conditions =
         <<ExtApproved, Cond(CertificateFailed, "CorruptCAKey")>>

====
